---- MODULE Spec2Model ----
(***************************************************************************)
(* Model of two CI utilities of smithy-rs:                                 *)
(*   tools/ci-scripts/codegen-diff/diff_lib.py   (codegen diff pipeline)   *)
(*   tools/compiletime-benchmark/format.py       (benchmark formatter)     *)
(*                                                                         *)
(* Python strings are modelled as sequences of tokens (each token a piece  *)
(* of text), so that concatenation, splitting and substring tests are      *)
(* computed and not assumed.  Python's None is the value None below; an    *)
(* f-string renders it as the text "None" (operator Fmt).                  *)
(***************************************************************************)
EXTENDS Integers, Sequences, FiniteSets, TLC

VARIABLES
    \* ---- codegen diff: make_diff / make_diffs
    base_tree,          \* content of each staged path on __tmp-localonly-base
    head_tree,          \* content of each staged path on __tmp-localonly-head
    base_commit_sha,    \* argument of make_diffs
    head_commit_sha,    \* argument of make_diffs
    pc,                 \* position of each of the eight make_diff calls
    results,            \* return value of each make_diff call (sdk_ws, sdk_nows, ...)
    dirs,               \* directories created with mkdir -p
    codegen_diff_txt,   \* content of the scratch file codegen-diff.txt
    artifacts,          \* what difftags rendered, per output directory
    stderr,             \* the lines eprint wrote (order not kept)
    summary,            \* the string make_diffs returned
    \* ---- codegen diff: generate_and_commit_generated_code
    revision_sha,       \* the revision_sha argument
    targets,            \* the targets argument, after `targets or [...]`
    gpc,                \* the statement about to run
    loop_i,             \* index of the for loop over ['codegen-client', 'codegen-server']
    fs,                 \* the working tree: set of paths (sequences of components)
    trace,              \* the external commands run so far, with their exit status
    index,              \* paths staged with git add -f
    commits,            \* commits created: each the set of staged paths
    \* ---- benchmark formatter
    text,               \* content of /tmp/compiletime-benchmark.txt
    orig,               \* the same file before any rule line was added to it
    inserted,           \* number of rule lines added
    fpc,                \* position of main(): "input", "parsing", "written"
    iter,               \* what is left of the iterator read_file returned
    markdown            \* the markdown built by parser

diff_vars == <<base_tree, head_tree, base_commit_sha, head_commit_sha, pc, results,
               dirs, codegen_diff_txt, artifacts, stderr, summary>>
gen_vars == <<revision_sha, targets, gpc, loop_i, fs, trace, index, commits>>
fmt_vars == <<text, orig, inserted, fpc, iter, markdown>>
vars == <<diff_vars, gen_vars, fmt_vars>>

(***************************************************************************)
(* Generic sequence helpers                                                *)
(***************************************************************************)
RECURSIVE Flatten(_)
Flatten(ss) == IF ss = <<>> THEN <<>> ELSE Head(ss) \o Flatten(Tail(ss))

IsPrefix(p, s) == Len(p) <= Len(s) /\ SubSeq(s, 1, Len(p)) = p

\* p occurs in s as a contiguous run of tokens
Occurs(p, s) == \E i \in 1..(Len(s) - Len(p) + 1) : SubSeq(s, i, i + Len(p) - 1) = p

Range(s) == {s[i] : i \in DOMAIN s}

\* str.split(sep) for a separator of one token: the pieces between the separators
RECURSIVE Split(_, _)
Split(s, sep) ==
    IF \A i \in DOMAIN s : s[i] # sep THEN <<s>>
    ELSE LET k == CHOOSE i \in DOMAIN s : s[i] = sep /\ \A j \in 1..(i - 1) : s[j] # sep
         IN  <<SubSeq(s, 1, k - 1)>> \o Split(SubSeq(s, k + 1, Len(s)), sep)

(***************************************************************************)
(* diff_lib.py: constants                                                  *)
(***************************************************************************)
HEAD_BRANCH_NAME == "__tmp-localonly-head"
BASE_BRANCH_NAME == "__tmp-localonly-base"
OUTPUT_PATH == "tmp-codegen-diff"
CDN_URL == "https://d2luzm2xt3nokh.cloudfront.net"

None == <<>>
Fmt(x) == IF x = None THEN <<"None">> ELSE x

(***************************************************************************)
(* The two throwaway branches.  Each staged path holds one line of text,   *)
(* a sequence of characters.  git's -b treats every run of blanks as one   *)
(* blank and ignores blanks at the end of the line.                        *)
(***************************************************************************)
Paths == {"aws-sdk", "codegen-client-test", "codegen-server-test", "codegen-server-test-python"}

BaseContent == <<"a", " ", "b">>
Contents == {<<"a", " ", "b">>, <<"a", " ", " ", "b">>, <<"a", " ", "c">>}
Shas == {"b5e1", "h7a2"}

RECURSIVE IgnoreSpaceChange(_)
IgnoreSpaceChange(s) ==
    IF s = <<>> THEN <<>>
    ELSE IF Head(s) = " "
         THEN LET rest == IgnoreSpaceChange(Tail(s))
              IN  IF rest = <<>> \/ Head(rest) = " " THEN rest ELSE <<" ">> \o rest
         ELSE <<Head(s)>> \o IgnoreSpaceChange(Tail(s))

\* exit status of `git diff --quiet {flag} BASE HEAD -- OUTPUT_PATH/{path}`
git_diff_quiet(flag, path) ==
    IF flag = "-b"
    THEN IF IgnoreSpaceChange(base_tree[path]) = IgnoreSpaceChange(head_tree[path]) THEN 0 ELSE 1
    ELSE IF base_tree[path] = head_tree[path] THEN 0 ELSE 1

\* what `git diff --output=codegen-diff.txt -U30 {flag} BASE HEAD -- path` writes
git_diff_output(flag, path) ==
    IF git_diff_quiet(flag, path) = 0 THEN <<>>
    ELSE <<[path |-> path, old |-> base_tree[path], new |-> head_tree[path]]>>

(***************************************************************************)
(* make_diffs: the eight make_diff calls, in the order of the source       *)
(***************************************************************************)
Calls == 1..8

CallArgs == <<
    [var |-> "sdk_ws",             title |-> "AWS SDK",            path |-> "aws-sdk",
     suffix |-> "aws-sdk",                              whitespace |-> TRUE],
    [var |-> "sdk_nows",           title |-> "AWS SDK",            path |-> "aws-sdk",
     suffix |-> "aws-sdk-ignore-whitespace",            whitespace |-> FALSE],
    [var |-> "client_ws",          title |-> "Client Test",        path |-> "codegen-client-test",
     suffix |-> "client-test",                          whitespace |-> TRUE],
    [var |-> "client_nows",        title |-> "Client Test",        path |-> "codegen-client-test",
     suffix |-> "client-test-ignore-whitespace",        whitespace |-> FALSE],
    [var |-> "server_ws",          title |-> "Server Test",        path |-> "codegen-server-test",
     suffix |-> "server-test",                          whitespace |-> TRUE],
    [var |-> "server_nows",        title |-> "Server Test",        path |-> "codegen-server-test",
     suffix |-> "server-test-ignore-whitespace",        whitespace |-> FALSE],
    [var |-> "server_ws_python",   title |-> "Server Test Python", path |-> "codegen-server-test-python",
     suffix |-> "server-test-python",                   whitespace |-> TRUE],
    [var |-> "server_nows_python", title |-> "Server Test Python", path |-> "codegen-server-test-python",
     suffix |-> "server-test-python-ignore-whitespace", whitespace |-> FALSE] >>

(***************************************************************************)
(* make_diff, one step per external command                                *)
(***************************************************************************)
whitespace_flag_swapped(whitespace) == IF whitespace THEN "-b" ELSE ""

whitespace_flag(whitespace) == IF whitespace THEN "" ELSE "-b"

diff_exists(c) == git_diff_quiet(whitespace_flag(CallArgs[c].whitespace), CallArgs[c].path)

partial_output_path(c) ==
    <<base_commit_sha, "/", head_commit_sha, "/", CallArgs[c].suffix>>

full_output_path(c) == <<OUTPUT_PATH, "/">> \o partial_output_path(c)

whitespace_context(whitespace) == IF whitespace THEN "" ELSE "(ignoring whitespace)"

subtitle(c) == <<"rev. ", head_commit_sha, " ", whitespace_context(CallArgs[c].whitespace)>>

no_diff_message(c) ==
    <<"No diff output for ", base_commit_sha, "..", head_commit_sha, " (", CallArgs[c].suffix, ")">>

running_message(c) ==
    <<"Running diff cmd: difftags --output-dir ">> \o full_output_path(c)
        \o <<" --title ", CallArgs[c].title, " --subtitle ">> \o subtitle(c)
        \o <<" codegen-diff.txt">>

no_diff_inverted(c) == diff_exists(c) # 0

\* the test `if diff_exists == 0`
no_diff(c) == diff_exists(c) = 0

\* get_cmd_status(git diff --quiet ...) and the branch on its result
Status(c) ==
    /\ pc[c] = "ready"
    /\ summary = None
    /\ IF no_diff(c)
       THEN /\ stderr' = stderr \cup {no_diff_message(c)}
            /\ results' = [results EXCEPT ![c] = None]
            /\ pc' = [pc EXCEPT ![c] = "returned"]
       ELSE /\ pc' = [pc EXCEPT ![c] = "mkdir"]
            /\ UNCHANGED <<stderr, results>>
    /\ UNCHANGED <<base_tree, head_tree, base_commit_sha, head_commit_sha, dirs,
                   codegen_diff_txt, artifacts, summary>>
    /\ UNCHANGED <<gen_vars, fmt_vars>>

\* run(f"mkdir -p {full_output_path}") exits 0
Mkdir(c) ==
    /\ pc[c] = "mkdir"
    /\ dirs' = dirs \cup {full_output_path(c)}
    /\ pc' = [pc EXCEPT ![c] = "git_diff"]
    /\ UNCHANGED <<base_tree, head_tree, base_commit_sha, head_commit_sha, results,
                   codegen_diff_txt, artifacts, stderr, summary>>
    /\ UNCHANGED <<gen_vars, fmt_vars>>

\* run(f"git diff --output=codegen-diff.txt -U30 ...") exits 0
GitDiff(c) ==
    /\ pc[c] = "git_diff"
    /\ codegen_diff_txt' =
           git_diff_output(whitespace_flag(CallArgs[c].whitespace), CallArgs[c].path)
    /\ pc' = [pc EXCEPT ![c] = "difftags"]
    /\ UNCHANGED <<base_tree, head_tree, base_commit_sha, head_commit_sha, results,
                   dirs, artifacts, stderr, summary>>
    /\ UNCHANGED <<gen_vars, fmt_vars>>

\* eprint(diff cmd); run(diff_cmd) exits 0; return f"{partial_output_path}/index.html"
Difftags(c) ==
    /\ pc[c] = "difftags"
    /\ stderr' = stderr \cup {running_message(c)}
    /\ artifacts' = {a \in artifacts : a.dir # full_output_path(c)} \cup
                    {[dir |-> full_output_path(c), title |-> CallArgs[c].title,
                      subtitle |-> subtitle(c), body |-> codegen_diff_txt]}
    /\ results' = [results EXCEPT ![c] = partial_output_path(c) \o <<"/index.html">>]
    /\ pc' = [pc EXCEPT ![c] = "returned"]
    /\ UNCHANGED <<base_tree, head_tree, base_commit_sha, head_commit_sha, dirs,
                   codegen_diff_txt, summary>>
    /\ UNCHANGED <<gen_vars, fmt_vars>>

\* run(...) of make_diff exits non-zero: check=True raises CalledProcessError
CommandFails(c) ==
    /\ pc[c] \in {"mkdir", "git_diff", "difftags"}
    /\ stderr' = IF pc[c] = "difftags" THEN stderr \cup {running_message(c)} ELSE stderr
    /\ pc' = [pc EXCEPT ![c] = "raised"]
    /\ UNCHANGED <<base_tree, head_tree, base_commit_sha, head_commit_sha, results, dirs,
                   codegen_diff_txt, artifacts, summary>>
    /\ UNCHANGED <<gen_vars, fmt_vars>>

(***************************************************************************)
(* diff_link and the summary of make_diffs                                 *)
(***************************************************************************)
diff_link_primary_only(diff_text, empty_diff_text, diff_location, alternate_text, alternate_location) ==
    IF diff_location = None
    THEN <<empty_diff_text>>
    ELSE <<"[", diff_text, "](", CDN_URL, "/codegen-diff/">> \o Fmt(diff_location) \o <<")">>

diff_link(diff_text, empty_diff_text, diff_location, alternate_text, alternate_location) ==
    IF diff_location = None
    THEN <<empty_diff_text>>
    ELSE <<"[", diff_text, "](", CDN_URL, "/codegen-diff/">> \o Fmt(diff_location)
         \o <<")", " (", "[", alternate_text, "](", CDN_URL, "/codegen-diff/">>
         \o Fmt(alternate_location) \o <<")", ")">>

sdk_links(r) ==
    diff_link("AWS SDK", "No codegen difference in the AWS SDK",
              r[1], "ignoring whitespace", r[2])
client_links(r) ==
    diff_link("Client Test", "No codegen difference in the Client Test",
              r[3], "ignoring whitespace", r[4])
server_links(r) ==
    diff_link("Server Test", "No codegen difference in the Server Test",
              r[5], "ignoring whitespace", r[6])
server_links_python(r) ==
    diff_link("Server Test Python", "No codegen difference in the Server Test Python",
              r[7], "ignoring whitespace", r[8])

make_diffs_message_unterminated(r) ==
    <<"A new generated diff is ready to view.", "\\n">>
    \o <<"- ">> \o sdk_links(r) \o <<"\\n">>
    \o <<"- ">> \o client_links(r) \o <<"\\n">>
    \o <<"- ">> \o server_links(r) \o <<"\\n">>
    \o <<"- ">> \o server_links_python(r)

\* the return expression of make_diffs; "\\n" is the two characters backslash, n
make_diffs_message(r) ==
    <<"A new generated diff is ready to view.", "\\n">>
    \o <<"- ">> \o sdk_links(r) \o <<"\\n">>
    \o <<"- ">> \o client_links(r) \o <<"\\n">>
    \o <<"- ">> \o server_links(r) \o <<"\\n">>
    \o <<"- ">> \o server_links_python(r) \o <<"\\n">>

\* all eight calls have returned: build the links and return the message
MakeLinks ==
    /\ \A c \in Calls : pc[c] = "returned"
    /\ summary = None
    /\ summary' = make_diffs_message(results)
    /\ UNCHANGED <<base_tree, head_tree, base_commit_sha, head_commit_sha, pc, results,
                   dirs, codegen_diff_txt, artifacts, stderr>>
    /\ UNCHANGED <<gen_vars, fmt_vars>>

(***************************************************************************)
(* Values of the variables of a tool that is not running                   *)
(***************************************************************************)
DiffIdle ==
    /\ base_tree = [p \in Paths |-> BaseContent]
    /\ head_tree = [p \in Paths |-> BaseContent]
    /\ base_commit_sha = "b5e1"
    /\ head_commit_sha = "h7a2"
    /\ pc = [c \in Calls |-> "ready"]
    /\ results = [c \in Calls |-> None]
    /\ dirs = {}
    /\ codegen_diff_txt = <<>>
    /\ artifacts = {}
    /\ stderr = {}
    /\ summary = None

GenIdle ==
    /\ revision_sha = "b5e1"
    /\ targets = {}
    /\ gpc = "idle"
    /\ loop_i = 1
    /\ fs = {}
    /\ trace = <<>>
    /\ index = {}
    /\ commits = <<>>

FmtIdle ==
    /\ text = <<>>
    /\ orig = <<>>
    /\ inserted = 0
    /\ fpc = "idle"
    /\ iter = <<>>
    /\ markdown = <<>>

(***************************************************************************)
(* make_diffs as written: the eight calls one after the other              *)
(***************************************************************************)
InitDiff ==
    /\ base_tree = [p \in Paths |-> BaseContent]
    /\ head_tree \in [Paths -> Contents]
    /\ base_commit_sha \in Shas
    /\ head_commit_sha \in Shas
    /\ pc = [c \in Calls |-> "ready"]
    /\ results = [c \in Calls |-> None]
    /\ dirs = {}
    /\ codegen_diff_txt = <<>>
    /\ artifacts = {}
    /\ stderr = {}
    /\ summary = None

Init == InitDiff /\ GenIdle /\ FmtIdle

\* a call starts when every call before it has returned
SeqTurn(c) == \A d \in Calls : d < c => pc[d] = "returned"

Next ==
    \/ \E c \in Calls : SeqTurn(c) /\ Status(c)
    \/ \E c \in Calls : Mkdir(c)
    \/ \E c \in Calls : GitDiff(c)
    \/ \E c \in Calls : Difftags(c)
    \/ \E c \in Calls : CommandFails(c)
    \/ MakeLinks

Spec == Init /\ [][Next]_vars

(***************************************************************************)
(* The eight calls handed, in order, to a pool of MaxWorkers workers, in a  *)
(* run where every external command exits 0                                *)
(***************************************************************************)
MaxWorkers == 2

InFlight == {c \in Calls : pc[c] \in {"mkdir", "git_diff", "difftags"}}

\* calls are taken in order; none is started once a call has raised
PoolTurn(c) ==
    /\ \A d \in Calls : d < c => pc[d] # "ready"
    /\ \A d \in Calls : pc[d] # "raised"
    /\ Cardinality(InFlight) < MaxWorkers

\* the pool is explored on fewer trees: only aws-sdk may differ in blanks alone
InitPar ==
    /\ InitDiff
    /\ \A p \in Paths \ {"aws-sdk"} : head_tree[p] \in {BaseContent, <<"a", " ", "c">>}
    /\ base_commit_sha = "b5e1"
    /\ head_commit_sha = "h7a2"
    /\ GenIdle /\ FmtIdle

NextPar ==
    \/ \E c \in Calls : PoolTurn(c) /\ Status(c)
    \/ \E c \in Calls : Mkdir(c)
    \/ \E c \in Calls : GitDiff(c)
    \/ \E c \in Calls : Difftags(c)
    \/ MakeLinks

SpecPar == InitPar /\ [][NextPar]_vars

(***************************************************************************)
(* Properties of make_diffs, make_diff and diff_link                       *)
(***************************************************************************)
TargetTitle == <<"AWS SDK", "Client Test", "Server Test", "Server Test Python">>

NoDiffLabel == <<"No codegen difference in the AWS SDK",
                 "No codegen difference in the Client Test",
                 "No codegen difference in the Server Test",
                 "No codegen difference in the Server Test Python">>

IntroLine == <<"A new generated diff is ready to view.">>

IndexOf(c) == partial_output_path(c) \o <<"/index.html">>

\* line is the bullet of target i: "- " and then its label or a link with its title
BulletIsFor(line, i) ==
    /\ Len(line) >= 2
    /\ line[1] = "- "
    /\ \/ line = <<"- ", NoDiffLabel[i]>>
       \/ Len(line) >= 3 /\ line[2] = "[" /\ line[3] = TargetTitle[i]

\* msg is the intro line and four bullet lines in the fixed order, each line
\* closed by the escaped newline
FourBullets(msg) ==
    LET lines == Split(msg, "\\n")
    IN  /\ Len(lines) = 6
        /\ lines[1] = IntroLine
        /\ \A i \in 1..4 : BulletIsFor(lines[i + 1], i)
        /\ lines[6] = <<>>

AllOutcomes == [Calls -> BOOLEAN]
ResultsOf(o) == [c \in Calls |-> IF o[c] THEN IndexOf(c) ELSE None]

\* C1: whatever the eight make_diff results are (None or a path), the message
\* make_diffs returns is the intro line followed by exactly four bullet lines
\* in the order AWS SDK, Client Test, Server Test, Server Test Python, each
\* ending with the escaped newline.
C1_FourBullets ==
    summary # None =>
        /\ FourBullets(summary)
        /\ \A o \in AllOutcomes : FourBullets(make_diffs_message(ResultsOf(o)))

C1_Witness ==
    /\ summary # None
    /\ results[1] # None /\ results[2] = None
    /\ results[3] = None
    /\ results[5] # None /\ results[6] # None

LinkHead(label) == <<"[", label, "](", CDN_URL, "/codegen-diff/">>

DiffLinkContract(link, diff_text, empty_diff_text, diff_location, alternate_text) ==
    IF diff_location = None
    THEN link = <<empty_diff_text>>
    ELSE /\ Occurs(LinkHead(diff_text), link)
         /\ Occurs(LinkHead(alternate_text), link)

Locations == {None} \cup {IndexOf(c) : c \in Calls}

\* C2: diff_link returns empty_diff_text exactly when diff_location is None, and
\* otherwise a text holding a link labelled diff_text and a link labelled
\* alternate_text, both URLs starting with the CDN prefix and /codegen-diff/;
\* the bullets of the returned summary are built that way.
C2_DiffLink ==
    summary # None =>
        /\ \A i \in 1..4 :
               DiffLinkContract(Tail(Split(summary, "\\n")[i + 1]), TargetTitle[i],
                                NoDiffLabel[i], results[2 * i - 1], "ignoring whitespace")
        /\ \A loc \in Locations, alt \in Locations :
               DiffLinkContract(diff_link("Client Test", NoDiffLabel[2], loc,
                                          "ignoring whitespace", alt),
                                "Client Test", NoDiffLabel[2], loc, "ignoring whitespace")

C2_Witness ==
    /\ summary # None
    /\ results[3] # None /\ results[4] # None
    /\ results[7] = None

AllNoDiffMessage ==
    <<"A new generated diff is ready to view.", "\\n",
      "- ", "No codegen difference in the AWS SDK", "\\n",
      "- ", "No codegen difference in the Client Test", "\\n",
      "- ", "No codegen difference in the Server Test", "\\n",
      "- ", "No codegen difference in the Server Test Python", "\\n">>

\* C3: when the two branches hold the same content under the staging
\* directory, each of the eight make_diff calls returns None (and logs it), no
\* output directory is made, difftags never runs, and the four bullets of the
\* summary are the four "No codegen difference in the ..." labels.
C3_IdenticalNoDiff ==
    head_tree = base_tree =>
        /\ \A c \in Calls :
               /\ pc[c] \in {"ready", "returned"}
               /\ results[c] = None
               /\ pc[c] = "returned" => no_diff_message(c) \in stderr
               /\ running_message(c) \notin stderr
        /\ dirs = {}
        /\ artifacts = {}
        /\ codegen_diff_txt = <<>>
        /\ summary # None => summary = AllNoDiffMessage

C3_Witness == head_tree = base_tree /\ summary # None

\* the URLs of a message: what stands between "](" and the next ")"
Urls(msg) ==
    {SubSeq(msg, i + 1,
            (CHOOSE j \in (i + 1)..Len(msg) :
                 /\ msg[j] = ")"
                 /\ \A k \in (i + 1)..(j - 1) : msg[k] # ")") - 1) :
        i \in {i \in DOMAIN msg : msg[i] = "]("}}

\* C10: every link of the summary, primary or "ignoring whitespace", is
\* CDN/codegen-diff/{base_sha}/{head_sha}/{suffix}/index.html for an artifact
\* that make_diff rendered in this run; no link is built from None.
C10_LinksPointToArtifacts ==
    summary # None =>
        \A u \in Urls(summary) :
            \E c \in Calls :
                /\ u = <<CDN_URL, "/codegen-diff/">> \o IndexOf(c)
                /\ \E a \in artifacts : a.dir = full_output_path(c)

\* what the calls return and render when run one after the other
SameUnderFlag(c) ==
    IF CallArgs[c].whitespace
    THEN base_tree[CallArgs[c].path] = head_tree[CallArgs[c].path]
    ELSE IgnoreSpaceChange(base_tree[CallArgs[c].path])
             = IgnoreSpaceChange(head_tree[CallArgs[c].path])

ExpectedResult(c) ==
    IF SameUnderFlag(c) THEN None
    ELSE <<base_commit_sha, "/", head_commit_sha, "/", CallArgs[c].suffix, "/index.html">>

ExpectedBody(c) ==
    <<[path |-> CallArgs[c].path, old |-> base_tree[CallArgs[c].path],
       new |-> head_tree[CallArgs[c].path]]>>

ExpectedSubtitle(c) ==
    <<"rev. ", head_commit_sha, " ",
      IF CallArgs[c].whitespace THEN "" ELSE "(ignoring whitespace)">>

ExpectedDir(c) ==
    <<"tmp-codegen-diff", "/", base_commit_sha, "/", head_commit_sha, "/", CallArgs[c].suffix>>

ExpectedArtifact(c) ==
    [dir |-> ExpectedDir(c), title |-> CallArgs[c].title,
     subtitle |-> ExpectedSubtitle(c), body |-> ExpectedBody(c)]

Differing == {c \in Calls : ~SameUnderFlag(c)}

AllReturned == \A c \in Calls : pc[c] = "returned"

\* C6 as claimed: run in parallel, the eight calls return the results and
\* render the artifacts of the sequential run.
C6_ParallelSameArtifacts ==
    AllReturned =>
        /\ results = [c \in Calls |-> ExpectedResult(c)]
        /\ artifacts = {ExpectedArtifact(c) : c \in Differing}

\* C6 as amended: run in parallel, the eight calls return the results of the
\* sequential run and render one artifact per differing pair, in the same
\* directory and with the same title and subtitle; the diff it shows is the
\* one some differing call wrote to codegen-diff.txt, not always its own.
C6_ParallelSameResults ==
    AllReturned =>
        /\ results = [c \in Calls |-> ExpectedResult(c)]
        /\ dirs = {ExpectedDir(c) : c \in Differing}
        /\ Cardinality(artifacts) = Cardinality(Differing)
        /\ \A c \in Differing :
               \E a \in artifacts, d \in Differing :
                   a = [ExpectedArtifact(c) EXCEPT !.body = ExpectedBody(d)]

C6_Witness ==
    /\ AllReturned
    /\ \E a \in artifacts, c \in Differing :
           a.dir = ExpectedDir(c) /\ a.body # ExpectedBody(c)

(***************************************************************************)
(* generate_and_commit_generated_code.  The working tree is a set of       *)
(* paths, each a sequence of components; a directory is listed itself and  *)
(* so is everything below it.                                              *)
(***************************************************************************)
COMMIT_AUTHOR_NAME == "GitHub Action (generated code preview)"
COMMIT_AUTHOR_EMAIL == "generated-code-action@github.com"

TargetNames == {"codegen-client-test", "codegen-server-test", "aws:sdk",
                "codegen-client", "codegen-server"}

DefaultTargets == {"codegen-client-test", "codegen-server-test", "aws:sdk"}

\* targets = targets or [...]
targets_or_default(arg) == IF arg = {} THEN DefaultTargets ELSE arg

\* the list the for loop of the move step walks
LoopTargets == <<"codegen-client", "codegen-server">>

Examples == "rust-runtime/aws-smithy-http-server-python/examples"

Under(prefix, tree) == {q \in tree : IsPrefix(prefix, q)}

\* rm -rf prefix
RemoveTree(tree, prefix) == tree \ Under(prefix, tree)

\* mv src dst/ : src and what is below it now live in dst, under the name of src
MoveInto(tree, src, dst) ==
    (tree \ Under(src, tree)) \cup
    {dst \o SubSeq(q, Len(src), Len(q)) : q \in Under(src, tree)}

\* what `./gradlew --rerun-tasks {t}:assemble` writes for project t
Generated(t) ==
    IF t = "aws:sdk"
    THEN {<<"aws", "sdk", "build">>, <<"aws", "sdk", "build", "aws-sdk">>,
          <<"aws", "sdk", "build", "aws-sdk", "sdk">>,
          <<"aws", "sdk", "build", "aws-sdk", "versions.toml">>}
    ELSE {<<t, "build">>, <<t, "build", "smithyprojections">>,
          <<t, "build", "smithyprojections", t>>,
          <<t, "build", "smithyprojections", t, "rust-crate">>,
          <<t, "build", "smithyprojections", t, "source">>,
          <<t, "build", "smithyprojections", t, "smithy-build-info.json">>}

PythonSdk == {<<Examples, "pokemon-service-server-sdk">>,
              <<Examples, "pokemon-service-server-sdk", "src">>}

\* a tree left behind by an earlier run
StaleTree == {<<OUTPUT_PATH>>, <<OUTPUT_PATH, "aws-sdk">>, <<OUTPUT_PATH, "aws-sdk", "sdk">>,
              <<"aws", "sdk", "build">>, <<"aws", "sdk", "build", "aws-sdk">>}

\* find dir | grep -E 'smithy-build-info.json|sources/manifest|model.json' | xargs rm -f
NoisyUnder(dir, tree) ==
    {q \in Under(dir, tree) :
        \/ \E i \in DOMAIN q : q[i] \in {"smithy-build-info.json", "model.json"}
        \/ \E i \in 1..(Len(q) - 1) : q[i] = "sources" /\ q[i + 1] = "manifest"}

raises_never(check, status) == FALSE

\* run(command, check): subprocess.run raises CalledProcessError when check is
\* set and the exit status is not 0
raises(check, status) == check /\ status # 0

\* one run(...) statement at label: the command exits 0 with its effect on the
\* tree (when it can succeed), or exits 1 and leaves the tree alone
RunStep(label, cmd, check, can_succeed, new_fs, next) ==
    /\ gpc = label
    /\ \E status \in {0, 1} :
        /\ status = 0 => can_succeed
        /\ fs' = IF status = 0 THEN new_fs ELSE fs
        /\ trace' = Append(trace, [cmd |-> cmd, check |-> check, status |-> status])
        /\ gpc' = IF raises(check, status) THEN "raised" ELSE next
    /\ UNCHANGED <<revision_sha, targets, loop_i, index, commits>>
    /\ UNCHANGED <<diff_vars, fmt_vars>>

RmBuild ==
    RunStep("rm_build", "rm -rf aws/sdk/build", TRUE, TRUE,
            RemoveTree(fs, <<"aws", "sdk", "build">>),
            IF "codegen-server-test" \in targets THEN "distclean" ELSE "gradle_clean")

MakeDistclean ==
    RunStep("distclean", "make distclean", TRUE, TRUE,
            RemoveTree(fs, <<Examples, "pokemon-service-server-sdk">>), "gradle_clean")

GradleClean ==
    RunStep("gradle_clean", "./gradlew clean", TRUE, TRUE,
            RemoveTree(RemoveTree(fs, <<"codegen-client", "build">>),
                       <<"codegen-server", "build">>),
            "assemble")

GradleAssemble ==
    RunStep("assemble", "./gradlew --rerun-tasks assemble", TRUE, TRUE,
            fs \cup UNION {Generated(t) : t \in targets},
            IF "codegen-server-test" \in targets THEN "make_build" ELSE "rm_output")

MakeBuild ==
    RunStep("make_build", "make build", FALSE, TRUE, fs \cup PythonSdk, "rm_output")

RmOutput ==
    RunStep("rm_output", "rm -rf OUTPUT_PATH", TRUE, TRUE,
            RemoveTree(fs, <<OUTPUT_PATH>>), "mkdir_output")

MkdirOutput ==
    RunStep("mkdir_output", "mkdir OUTPUT_PATH", TRUE, <<OUTPUT_PATH>> \notin fs,
            fs \cup {<<OUTPUT_PATH>>},
            IF "aws:sdk" \in targets THEN "mv_sdk" ELSE "mv_loop")

MvSdk ==
    RunStep("mv_sdk", "mv aws/sdk/build/aws-sdk", TRUE,
            <<"aws", "sdk", "build", "aws-sdk">> \in fs /\ <<OUTPUT_PATH>> \in fs,
            MoveInto(fs, <<"aws", "sdk", "build", "aws-sdk">>, <<OUTPUT_PATH>>),
            "mv_loop")

\* for target in ['codegen-client', 'codegen-server']: the test `if target in targets`
\* fails, or the list is exhausted
LoopSkip ==
    /\ gpc = "mv_loop"
    /\ \/ /\ loop_i <= Len(LoopTargets)
          /\ LoopTargets[loop_i] \notin targets
          /\ loop_i' = loop_i + 1
          /\ gpc' = gpc
       \/ /\ loop_i > Len(LoopTargets)
          /\ loop_i' = loop_i
          /\ gpc' = "rm_versions"
    /\ UNCHANGED <<revision_sha, targets, fs, trace, index, commits>>
    /\ UNCHANGED <<diff_vars, fmt_vars>>

\* the body of the loop: mv {target}/build/smithyprojections/{target} OUTPUT_PATH/,
\* then, if target == 'codegen-server-test', the mv of the python example (check=False)
MvProjection ==
    /\ gpc = "mv_loop"
    /\ loop_i <= Len(LoopTargets)
    /\ LoopTargets[loop_i] \in targets
    /\ LET target == LoopTargets[loop_i]
           src == <<target, "build", "smithyprojections", target>>
           python == <<Examples, "pokemon-service-server-sdk">>
       IN  \E status \in {0, 1}, python_status \in {0, 1} :
            /\ status = 0 => src \in fs /\ <<OUTPUT_PATH>> \in fs
            /\ python_status = 0 => python \in fs
            /\ IF raises(TRUE, status)
               THEN /\ fs' = fs
                    /\ trace' = Append(trace, [cmd |-> "mv projection", check |-> TRUE,
                                               status |-> status])
                    /\ gpc' = "raised"
                    /\ loop_i' = loop_i
                    /\ python_status = 1
               ELSE IF target = "codegen-server-test"
               THEN /\ fs' = IF python_status = 0
                             THEN MoveInto(MoveInto(fs, src, <<OUTPUT_PATH>>), python,
                                           <<OUTPUT_PATH, "codegen-server-test-python">>)
                             ELSE MoveInto(fs, src, <<OUTPUT_PATH>>)
                    /\ trace' = trace \o
                           <<[cmd |-> "mv projection", check |-> TRUE, status |-> status],
                             [cmd |-> "mv python", check |-> FALSE, status |-> python_status]>>
                    /\ gpc' = gpc
                    /\ loop_i' = loop_i + 1
               ELSE /\ fs' = MoveInto(fs, src, <<OUTPUT_PATH>>)
                    /\ trace' = Append(trace, [cmd |-> "mv projection", check |-> TRUE,
                                               status |-> status])
                    /\ gpc' = gpc
                    /\ loop_i' = loop_i + 1
                    /\ python_status = 1
    /\ UNCHANGED <<revision_sha, targets, index, commits>>
    /\ UNCHANGED <<diff_vars, fmt_vars>>

RmVersions ==
    RunStep("rm_versions", "rm -f aws-sdk/versions.toml", TRUE, TRUE,
            fs \ {<<OUTPUT_PATH, "aws-sdk", "versions.toml">>}, "rm_client_source")

RmClientSource ==
    RunStep("rm_client_source", "rm -rf codegen-client-test/source", TRUE, TRUE,
            RemoveTree(fs, <<OUTPUT_PATH, "codegen-client-test", "source">>), "find_client")

FindClient ==
    RunStep("find_client", "find codegen-client-test | grep | xargs rm -f", TRUE, TRUE,
            fs \ NoisyUnder(<<OUTPUT_PATH, "codegen-client-test">>, fs), "rm_server_source")

RmServerSource ==
    RunStep("rm_server_source", "rm -rf codegen-server-test/source", TRUE, TRUE,
            RemoveTree(fs, <<OUTPUT_PATH, "codegen-server-test", "source">>), "find_server")

FindServer ==
    RunStep("find_server", "find codegen-server-test | grep | xargs rm -f", TRUE, TRUE,
            fs \ NoisyUnder(<<OUTPUT_PATH, "codegen-server-test">>, fs), "git_add")

\* run(f"git add -f {OUTPUT_PATH}")
GitAdd ==
    /\ gpc = "git_add"
    /\ \E status \in {0, 1} :
        /\ status = 0 => <<OUTPUT_PATH>> \in fs
        /\ index' = IF status = 0 THEN Under(<<OUTPUT_PATH>>, fs) \ {<<OUTPUT_PATH>>} ELSE index
        /\ trace' = Append(trace, [cmd |-> "git add", check |-> TRUE, status |-> status])
        /\ gpc' = IF raises(TRUE, status) THEN "raised" ELSE "git_commit"
    /\ UNCHANGED <<revision_sha, targets, loop_i, fs, commits>>
    /\ UNCHANGED <<diff_vars, fmt_vars>>

\* run("git ... commit --no-verify -m 'Generated code for {revision_sha}' --allow-empty")
GitCommit ==
    /\ gpc = "git_commit"
    /\ \E status \in {0, 1} :
        /\ commits' = IF status = 0
                      THEN Append(commits, [author |-> COMMIT_AUTHOR_NAME,
                                            email |-> COMMIT_AUTHOR_EMAIL,
                                            message |-> <<"Generated code for ", revision_sha>>,
                                            tree |-> index])
                      ELSE commits
        /\ trace' = Append(trace, [cmd |-> "git commit", check |-> TRUE, status |-> status])
        /\ gpc' = IF raises(TRUE, status) THEN "raised" ELSE "done"
    /\ UNCHANGED <<revision_sha, targets, loop_i, fs, index>>
    /\ UNCHANGED <<diff_vars, fmt_vars>>

InitGen ==
    /\ revision_sha \in Shas
    /\ targets \in {targets_or_default(arg) : arg \in SUBSET TargetNames}
    /\ gpc = "rm_build"
    /\ loop_i = 1
    /\ fs \in {{}, StaleTree}
    /\ trace = <<>>
    /\ index = {}
    /\ commits = <<>>
    /\ DiffIdle /\ FmtIdle

NextGen ==
    \/ RmBuild \/ MakeDistclean \/ GradleClean \/ GradleAssemble \/ MakeBuild
    \/ RmOutput \/ MkdirOutput \/ MvSdk \/ LoopSkip \/ MvProjection
    \/ RmVersions \/ RmClientSource \/ FindClient \/ RmServerSource \/ FindServer
    \/ GitAdd \/ GitCommit

SpecGen == InitGen /\ [][NextGen]_vars

(***************************************************************************)
(* Properties of generate_and_commit_generated_code                        *)
(***************************************************************************)
\* the subdirectory of the staging directory that holds target t
StagingName(t) == IF t = "aws:sdk" THEN "aws-sdk" ELSE t

AllSucceeded == \A i \in DOMAIN trace : trace[i].status = 0

\* C4: when every command succeeds, each requested target (by default
\* codegen-client-test, codegen-server-test and aws:sdk) has been moved into
\* its own subdirectory of tmp-codegen-diff before git add, so the staged
\* directory holds one subdirectory per requested target.
C4_EveryTargetStaged ==
    (gpc \in {"git_commit", "done"} /\ AllSucceeded) =>
        \A t \in targets : <<OUTPUT_PATH, StagingName(t)>> \in index

FatalFailure(i) == trace[i].check /\ trace[i].status # 0

\* C5: a command that exits non-zero and is not marked check=False ends the
\* step there: it is the last command run and no commit exists; a failing
\* check=False command does not end it; every other state has a next step,
\* and the step ends with the commit, made of whatever is staged (nothing
\* included), exactly when no fatal command failed.
C5_FailFast ==
    /\ \A i \in DOMAIN trace :
           FatalFailure(i) => i = Len(trace) /\ gpc = "raised" /\ commits = <<>>
    /\ gpc = "raised" => trace # <<>> /\ FatalFailure(Len(trace))
    /\ gpc \notin {"raised", "done"} => commits = <<>> /\ ENABLED NextGen
    /\ gpc = "done" =>
           /\ Len(commits) = 1
           /\ commits[1].tree = index
           /\ trace[Len(trace)] = [cmd |-> "git commit", check |-> TRUE, status |-> 0]

C5_Witness ==
    /\ gpc = "done"
    /\ \E i \in DOMAIN trace : ~trace[i].check /\ trace[i].status # 0
    /\ commits[1].tree = {}

(***************************************************************************)
(* format.py: the benchmark formatter.  The file is a sequence of tokens:  *)
(* the sentinels START and END, the newline, the rule character +, the     *)
(* text " seconds" and other pieces of text.                               *)
(***************************************************************************)
\* read_file: f.split("START"), each piece split on "END", chained
read_file(f) == Flatten([k \in DOMAIN Split(f, "START") |-> Split(Split(f, "START")[k], "END")])

\* str.splitlines(): the lines of s; a final newline opens no further line
splitlines(s) ==
    LET pieces == Split(s, "\n")
    IN  IF pieces[Len(pieces)] = <<>> THEN SubSeq(pieces, 1, Len(pieces) - 1) ELSE pieces

no_plus_unchecked(l) == TRUE

\* the test `not "+" in l`
no_plus(l) == \A k \in DOMAIN l : l[k] # "+"

NotSeconds(tok) == tok # " seconds"

\* l.replace(" seconds", "")
replace_seconds(l) == SelectSeq(l, NotSeconds)

RECURSIVE collect_outputs(_)
\* the inner loop: outputs.append(l.replace(...)) for each line without "+"
collect_outputs(lines) ==
    IF lines = <<>> THEN <<>>
    ELSE IF no_plus(Head(lines))
         THEN <<replace_seconds(Head(lines))>> \o collect_outputs(Tail(lines))
         ELSE collect_outputs(Tail(lines))

skipped_below_six(outputs) == Len(outputs) < 6

\* the test `len(outputs) != 6` that skips the chunk
skipped(outputs) == Len(outputs) # 6

RECURSIVE join(_, _)
\* sep.join(parts)
join(sep, parts) ==
    IF parts = <<>> THEN <<>>
    ELSE IF Len(parts) = 1 THEN Head(parts)
    ELSE Head(parts) \o <<sep>> \o join(sep, Tail(parts))

make_row_keeps_first(outputs) ==
    <<"|">> \o outputs[1] \o <<"|">> \o join("|", Tail(outputs)) \o <<"|">>

\* outputs = outputs[1:]; sdk_name = outputs[0];
\* row = f"|{sdk_name}|" + "|".join(outputs[1:]) + "|"
make_row(outputs) ==
    LET rest == Tail(outputs)
        sdk_name == rest[1]
    IN  <<"|">> \o sdk_name \o <<"|">> \o join("|", Tail(rest)) \o <<"|">>

\* the literal the markdown starts with
TableHead ==
    <<"\n", "    | sdk name | dev | release | dev all features | release all features |",
      "\n", "    | -------- | --- | ------- | ---------------- | -------------------- |",
      "\n", "    ">>

\* one pass of `for i in iter`: what chunk i adds to the markdown
parser_body(md, i) ==
    LET outputs == collect_outputs(splitlines(i))
    IN  IF skipped(outputs) THEN md ELSE md \o make_row(outputs)

RECURSIVE parser_loop(_, _)
\* the whole loop of parser over the chunks
parser_loop(md, chunks) ==
    IF chunks = <<>> THEN md ELSE parser_loop(parser_body(md, Head(chunks)), Tail(chunks))

\* parser(read_file()) on the file content f
parser(f) == parser_loop(TableHead, read_file(f))

\* main() up to the call of parser: read_file() and the first statement of parser
ReadFile ==
    /\ fpc = "input"
    /\ iter' = read_file(text)
    /\ markdown' = TableHead
    /\ fpc' = "parsing"
    /\ UNCHANGED <<text, orig, inserted>>
    /\ UNCHANGED <<diff_vars, gen_vars>>

\* one iteration of the loop of parser
ParserStep ==
    /\ fpc = "parsing"
    /\ iter # <<>>
    /\ markdown' = parser_body(markdown, Head(iter))
    /\ iter' = Tail(iter)
    /\ UNCHANGED <<text, orig, inserted, fpc>>
    /\ UNCHANGED <<diff_vars, gen_vars>>

\* parser returns; main prints the markdown and writes it to the .md file
WriteFile ==
    /\ fpc = "parsing"
    /\ iter = <<>>
    /\ fpc' = "written"
    /\ UNCHANGED <<text, orig, inserted, iter, markdown>>
    /\ UNCHANGED <<diff_vars, gen_vars>>

(***************************************************************************)
(* Input files                                                             *)
(***************************************************************************)
MaxLen == 3
MaxSections == 2
MaxTimings == 5
MaxInserts == 1

Alphabet == {"START", "END", "\n", "+", " seconds", "a"}

SeqsUpTo(S, n) == UNION {[1..k -> S] : k \in 0..n}

SmallTexts == SeqsUpTo(Alphabet, MaxLen)

Names == {"iam", "s3"}
Timings == <<"201.92", "217.43", "215.10", "187.71", "199.05", "230.11">>

TimingLines(n) == Flatten([k \in 1..n |-> <<Timings[k], " seconds", "\n">>])

\* a section as the benchmark script writes it: START, the name, the timings, END;
\* with_header puts a line of its own between START and the name; rule puts a
\* line of + after the name
Section(with_header, name, n, rule) ==
    <<"START", "\n">>
    \o (IF with_header THEN <<"header", "\n">> ELSE <<>>)
    \o <<name, "\n">>
    \o (IF rule THEN <<"+", "-", "+", "\n">> ELSE <<>>)
    \o TimingLines(n)
    \o <<"END", "\n">>

Sections ==
    {Section(h, name, n, r) : h \in BOOLEAN, name \in Names, n \in 3..MaxTimings, r \in BOOLEAN}

SectionTexts == {Flatten(ss) : ss \in SeqsUpTo(Sections, MaxSections)}

\* the scenario of the specification: a header line of its own, no newline after END
HeaderScenario ==
    <<"START", "\n", "header", "\n", "iam", "\n", "201.92", " seconds", "\n",
      "217.43", " seconds", "\n", "215.10", " seconds", "\n", "187.71", " seconds", "\n",
      "END">>

InitFmt ==
    /\ text \in SmallTexts \cup SectionTexts \cup {HeaderScenario}
    /\ orig = text
    /\ inserted = 0
    /\ fpc = "input"
    /\ iter = <<>>
    /\ markdown = <<>>
    /\ DiffIdle /\ GenIdle

NextFmt == ReadFile \/ ParserStep \/ WriteFile

SpecFmt == InitFmt /\ [][NextFmt]_vars

(***************************************************************************)
(* The same tool run on a file into which rule lines were inserted         *)
(***************************************************************************)
RuleLines == {<<"+">>, <<"a", "+">>}

\* k is a line boundary of t: its start, the place after a newline, or its end
LineBoundary(t, k) == IF k = 0 \/ k = Len(t) THEN TRUE ELSE t[k] = "\n"

\* t with the line l as a line of its own at boundary k
InsertLine(t, k, l) ==
    IF (IF k = 0 THEN TRUE ELSE t[k] = "\n")
    THEN SubSeq(t, 1, k) \o l \o <<"\n">> \o SubSeq(t, k + 1, Len(t))
    ELSE t \o <<"\n">> \o l

InsertRuleLine ==
    /\ fpc = "input"
    /\ inserted < MaxInserts
    /\ \E k \in 0..Len(text), l \in RuleLines :
        /\ LineBoundary(text, k)
        /\ text' = InsertLine(text, k, l)
    /\ inserted' = inserted + 1
    /\ UNCHANGED <<orig, fpc, iter, markdown>>
    /\ UNCHANGED <<diff_vars, gen_vars>>

InitIns ==
    /\ text \in SmallTexts \cup Sections \cup {HeaderScenario}
    /\ orig = text
    /\ inserted = 0
    /\ fpc = "input"
    /\ iter = <<>>
    /\ markdown = <<>>
    /\ DiffIdle /\ GenIdle

NextIns == InsertRuleLine \/ ReadFile \/ ParserStep \/ WriteFile

SpecIns == InitIns /\ [][NextIns]_vars

(***************************************************************************)
(* Properties of the benchmark formatter                                   *)
(***************************************************************************)
\* the chunks of a text: split on START, each piece split on END
ChunksOf(t) ==
    LET blocks == Split(t, "START")
    IN  Flatten([k \in DOMAIN blocks |-> Split(blocks[k], "END")])

\* the lines of a chunk
LinesOf(c) ==
    IF c = <<>> THEN <<>>
    ELSE IF c[Len(c)] = "\n" THEN Split(SubSeq(c, 1, Len(c) - 1), "\n")
    ELSE Split(c, "\n")

HasNoPlus(l) == "+" \notin Range(l)

\* the lines of a chunk left when every line containing + is removed
Survivors(c) == SelectSeq(LinesOf(c), HasNoPlus)

IsNotSeconds(tok) == tok # " seconds"
Stripped(l) == SelectSeq(l, IsNotSeconds)

Qualifies(c) == Len(Survivors(c)) = 6

\* |name|t1|t2|t3|t4| from surviving lines 2..6
RowOf(c) ==
    LET L == Survivors(c)
    IN  <<"|">> \o Stripped(L[2]) \o <<"|">> \o Stripped(L[3]) \o <<"|">> \o Stripped(L[4])
        \o <<"|">> \o Stripped(L[5]) \o <<"|">> \o Stripped(L[6]) \o <<"|">>

ExpectedTable(t) ==
    LET cs == ChunksOf(t)
    IN  TableHead \o Flatten([k \in DOMAIN cs |-> IF Qualifies(cs[k]) THEN RowOf(cs[k]) ELSE <<>>])

\* C7: the table is the literal header and separator rows followed, in input
\* order, by one row |name|t1|t2|t3|t4| for each chunk in which exactly six
\* lines survive the removal of the lines containing +, built from surviving
\* lines 2..6 with " seconds" stripped; every other chunk adds nothing.
C7_RowPerQualifyingChunk ==
    fpc = "written" => markdown = ExpectedTable(text)

C7_Witness ==
    /\ fpc = "written"
    /\ \E k \in DOMAIN ChunksOf(text) :
           Qualifies(ChunksOf(text)[k]) /\ Len(LinesOf(ChunksOf(text)[k])) = 7
    /\ \E k \in DOMAIN ChunksOf(text) : Len(Survivors(ChunksOf(text)[k])) = 5

RowFor(name) ==
    <<"|", name, "|", "201.92", "|", "217.43", "|", "215.10", "|", "187.71", "|">>

\* C8 as claimed: START, newline, a header line, the name line iam, four
\* timing lines, END gives exactly the row |iam|201.92|217.43|215.10|187.71|;
\* so does any section holding a header line, a name line and four timings.
C8_HeaderSectionRow ==
    fpc = "written" =>
        /\ text = HeaderScenario => markdown = TableHead \o RowFor("iam")
        /\ \A name \in Names :
               text = Section(TRUE, name, 4, FALSE) => markdown = TableHead \o RowFor(name)

\* C8 as amended: START, newline, the name line, four timing lines, END gives
\* exactly the row |name|t1|t2|t3|t4| (the discarded line is the empty rest
\* of the START line, and a rule line changes nothing); with a header line of
\* its own after START seven lines survive and the table has no row.
C8_RecordSectionRow ==
    fpc = "written" =>
        /\ text = HeaderScenario => markdown = TableHead
        /\ \A name \in Names, rule \in BOOLEAN :
               /\ text = Section(FALSE, name, 4, rule) => markdown = TableHead \o RowFor(name)
               /\ text = Section(TRUE, name, 4, rule) => markdown = TableHead

C8_Witness == fpc = "written" /\ text = Section(FALSE, "iam", 4, FALSE)

\* C9: the table made from a file into which lines containing + (and neither
\* START nor END) were inserted at line boundaries is the table made from the
\* file without them.
C9_RuleLinesIgnored ==
    fpc = "written" => markdown = parser(orig)

C9_Witness ==
    /\ fpc = "written"
    /\ inserted > 0
    /\ text # orig
    /\ markdown # TableHead

====
